---- MODULE Spec2Model ----
(***************************************************************************)
(* Model of the pen-plotter arm controller: the calibration grid           *)
(* interpolator (kinematics_interpolator.py), the inverse-kinematics       *)
(* solver (ik.py), the 1-D calibration lookup (calibrate_angles.py), the   *)
(* potentiometer smoother and button (boardio.py) and the control loop     *)
(* (main.clean.py).                                                        *)
(*                                                                         *)
(* Python floats are modelled as binary floating-point numbers             *)
(* [m |-> mantissa, e |-> exponent] of value m * 2^e, every operation      *)
(* rounded to nearest, ties to even, as IEEE-754 does.  The significand    *)
(* holds Precision bits where a CPython double holds 53 (and a MicroPython *)
(* single 24); the exponent is unbounded, so nothing overflows or          *)
(* underflows.                                                             *)
(***************************************************************************)
EXTENDS Integers, Sequences, FiniteSets, TLC

\* Width of the significand in bits.
Precision == 8

----------------------------------------------------------------------------
(* Floating-point arithmetic                                               *)

Abs(n) == IF n < 0 THEN -n ELSE n

Min(a, b) == IF a <= b THEN a ELSE b

Max(a, b) == IF a >= b THEN a ELSE b

Sgn(n) == IF n < 0 THEN -1 ELSE IF n > 0 THEN 1 ELSE 0

RECURSIVE BitLen(_)
BitLen(n) == IF n = 0 THEN 0 ELSE 1 + BitLen(n \div 2)

\* The canonical form of m * 2^e: an odd mantissa, or zero.
RECURSIVE Norm(_, _)
Norm(m, e) ==
    IF m = 0 THEN [m |-> 0, e |-> 0]
    ELSE IF m % 2 = 0 THEN Norm(m \div 2, e + 1)
    ELSE [m |-> m, e |-> e]

\* n * 2^e, n >= 0, rounded to Precision significant bits, ties to even.
RoundNat(n, e) ==
    LET len == BitLen(n)
    IN  IF len <= Precision THEN Norm(n, e)
        ELSE LET k    == len - Precision
                 q    == n \div (2 ^ k)
                 r    == n % (2 ^ k)
                 half == 2 ^ (k - 1)
                 up   == r > half \/ (r = half /\ q % 2 = 1)
             IN  Norm(IF up THEN q + 1 ELSE q, e + k)

FNeg(a) == [m |-> -a.m, e |-> a.e]

Round(n, e) == IF n < 0 THEN FNeg(RoundNat(-n, e)) ELSE RoundNat(n, e)

\* float(n) of an int n
FromInt(n) == Round(n, 0)

\* The float literal num/den of the source text, correctly rounded.
Lit(num, den) ==
    LET k == Max(0, Precision + 1 + BitLen(den) - BitLen(Abs(num)))
        n == Abs(num) * (2 ^ k)
        q == n \div den
        s == IF n % den = 0 THEN 0 ELSE 1
    IN  Round(Sgn(num) * (2 * q + s), -k - 1)

\* Position of the leading bit of a nonzero float.
Msb(a) == BitLen(Abs(a.m)) + a.e

FAdd(a, b) ==
    IF a.m = 0 THEN b
    ELSE IF b.m = 0 THEN a
    ELSE IF Msb(a) - Msb(b) > Precision + 2 THEN a
    ELSE IF Msb(b) - Msb(a) > Precision + 2 THEN b
    ELSE LET emin == Min(a.e, b.e)
         IN  Round(a.m * (2 ^ (a.e - emin)) + b.m * (2 ^ (b.e - emin)), emin)

FSub(a, b) == FAdd(a, FNeg(b))

FMul(a, b) == Round(a.m * b.m, a.e + b.e)

\* a / b for b # 0; the caller raises ZeroDivisionError on b = 0.
FDiv(a, b) ==
    LET k == Max(0, Precision + 1 + BitLen(Abs(b.m)) - BitLen(Abs(a.m)))
        n == Abs(a.m) * (2 ^ k)
        q == n \div Abs(b.m)
        s == IF n % Abs(b.m) = 0 THEN 0 ELSE 1
    IN  Round(Sgn(a.m) * Sgn(b.m) * (2 * q + s), a.e - b.e - k - 1)

FLt(a, b) == FSub(a, b).m < 0

FLe(a, b) == FSub(a, b).m <= 0

FGt(a, b) == FLt(b, a)

FGe(a, b) == FLe(b, a)

FAbs(a) == [m |-> Abs(a.m), e |-> a.e]

FMin(a, b) == IF FLt(b, a) THEN b ELSE a

FMax(a, b) == IF FGt(b, a) THEN b ELSE a

RECURSIVE ISqrtR(_, _, _)
ISqrtR(n, lo, hi) ==
    IF hi - lo <= 1 THEN lo
    ELSE LET mid == (lo + hi) \div 2
         IN  IF mid * mid <= n THEN ISqrtR(n, mid, hi) ELSE ISqrtR(n, lo, mid)

\* floor of the square root of n >= 0
ISqrt(n) == ISqrtR(n, 0, 2 ^ ((BitLen(n) + 1) \div 2))

\* math.sqrt(a) for a >= 0, correctly rounded.
FSqrt(a) ==
    IF a.m = 0 THEN a
    ELSE LET k0 == Max(0, 2 * Precision + 3 - BitLen(a.m))
             k  == IF (a.e - k0) % 2 = 0 THEN k0 ELSE k0 + 1
             n  == a.m * (2 ^ k)
             s  == ISqrt(n)
             t  == IF s * s = n THEN 0 ELSE 1
         IN  Round(2 * s + t, ((a.e - k) \div 2) - 1)

\* math.floor(a), an int
FFloor(a) == IF a.e >= 0 THEN a.m * (2 ^ a.e) ELSE a.m \div (2 ^ (-a.e))

\* Exact (unrounded) arithmetic on float values, used to state properties.
XAdd(a, b) ==
    LET emin == Min(a.e, b.e)
    IN  Norm(a.m * (2 ^ (a.e - emin)) + b.m * (2 ^ (b.e - emin)), emin)

XScale(n, a) == Norm(n * a.m, a.e)

----------------------------------------------------------------------------
(* State                                                                   *)

VARIABLES
    data,        \* GridInterpolator.data: (x, y) -> (shoulder, elbow)
    args,        \* the arguments of the call of a pure function
    result,      \* what that call returned or raised
    adc,         \* what ADC.read_u16() returns now on the x and the y pin
    pot,         \* the PotentiometerState object
    raw,         \* raw_x, raw_y of the last read, and how many reads were made
    pin,         \* what Pin.value() returns now on the button pin
    btn,         \* the ButtonState object
    loop,        \* main(): its locals and where it stands
    arm          \* the ArmController: the angles last commanded

callVars == <<data, args, result>>

potVars == <<adc, pot, raw>>

loopVars == <<pin, btn, loop, arm>>

vars == <<data, args, result, adc, pot, raw, pin, btn, loop, arm>>

\* The state of the objects a specification does not use.
Idle == [kind |-> "idle"]

\* The call has not returned yet.
Pending == [kind |-> "pending"]

None == [kind |-> "None"]

KeyError == [kind |-> "KeyError"]

----------------------------------------------------------------------------
(* kinematics_interpolator.py: GridInterpolator                            *)

\* grid_size, the default of GridInterpolator.__init__
GridSize == 5

\* Lattice indices run over origin .. origin + GridSpan on each axis.
GridSpan == 1

GridOrigins == {-1, 0}

GridVariants == {0, 1}

grid_size == FromInt(GridSize)

\* The key parsed from the string "<x>,<y>" of lattice point (i, j).
GridKey(i, j) == <<FromInt(i * GridSize), FromInt(j * GridSize)>>

\* The calibration values (shoulder, elbow) measured at lattice point (i, j):
\* variant 0 is the table of test_interpolation.py, variant 1 is not linear.
GridValue(i, j, v) ==
    <<FromInt(10 + 10 * i + v * (3 * i * j + j)),
      FromInt(10 + 10 * j + v * (7 * i * i))>>

\* self.data after __init__ has loaded a file holding the lattice points pts.
LoadedGrid(pts, v) ==
    [k \in {GridKey(p[1], p[2]) : p \in pts} |->
        LET p == CHOOSE q \in pts : GridKey(q[1], q[2]) = k
        IN  GridValue(p[1], p[2], v)]

\* x0 = math.floor(x / self.grid_size) * self.grid_size
CellFloor(x) == FMul(FromInt(FFloor(FDiv(x, grid_size))), grid_size)

Corners(x, y) ==
    LET x0 == CellFloor(x)
        y0 == CellFloor(y)
        x1 == FAdd(x0, grid_size)
        y1 == FAdd(y0, grid_size)
    IN  [p00 |-> <<x0, y0>>, p10 |-> <<x1, y0>>,
         p01 |-> <<x0, y1>>, p11 |-> <<x1, y1>>]

\* p00 not in self.data or p10 not in self.data or p01 not in ... or p11 not in ...
MissingCornerP11Ignored(d, c) ==
    c.p00 \notin DOMAIN d \/ c.p10 \notin DOMAIN d \/ c.p01 \notin DOMAIN d

MissingCorner(d, c) ==
    c.p00 \notin DOMAIN d \/ c.p10 \notin DOMAIN d \/
    c.p01 \notin DOMAIN d \/ c.p11 \notin DOMAIN d

\* (1-u)*(1-v)*f00 + u*(1-v)*f10 + (1-u)*v*f01 + u*v*f11
BilinearWrongLastCorner(u, v, f00, f10, f01, f11) ==
    LET one == FromInt(1)
    IN  FAdd(FAdd(FAdd(FMul(FMul(FSub(one, u), FSub(one, v)), f00),
                       FMul(FMul(u, FSub(one, v)), f10)),
                  FMul(FMul(FSub(one, u), v), f01)),
             FMul(FMul(u, v), f10))

Bilinear(u, v, f00, f10, f01, f11) ==
    LET one == FromInt(1)
    IN  FAdd(FAdd(FAdd(FMul(FMul(FSub(one, u), FSub(one, v)), f00),
                       FMul(FMul(u, FSub(one, v)), f10)),
                  FMul(FMul(FSub(one, u), v), f01)),
             FMul(FMul(u, v), f11))

\* GridInterpolator.get_angles(x, y); self.data[p] raises KeyError on a
\* missing key.
get_angles(d, x, y) ==
    IF DOMAIN d = {} THEN None
    ELSE LET c == Corners(x, y)
         IN  IF MissingCorner(d, c) THEN None
             ELSE IF ~ ({c.p00, c.p10, c.p01, c.p11} \subseteq DOMAIN d)
                  THEN KeyError
             ELSE LET q00 == d[c.p00]
                      q10 == d[c.p10]
                      q01 == d[c.p01]
                      q11 == d[c.p11]
                      u == FDiv(FSub(x, c.p00[1]), grid_size)
                      v == FDiv(FSub(y, c.p00[2]), grid_size)
                  IN  [kind |-> "angles",
                       shoulder |-> Bilinear(u, v, q00[1], q10[1], q01[1], q11[1]),
                       elbow |-> Bilinear(u, v, q00[2], q10[2], q01[2], q11[2])]

\* The points queried: multiples of grid_size / 2 around the lattice.
QueryCoords ==
    {Lit(k * GridSize, 2) : k \in -4 .. 2 * GridSpan + 3}

InitGrid ==
    /\ \E o \in GridOrigins, v \in GridVariants :
         \E pts \in SUBSET ((o .. o + GridSpan) \X (o .. o + GridSpan)) :
            data = LoadedGrid(pts, v)
    /\ \E x \in QueryCoords, y \in QueryCoords :
         args = [fn |-> "get_angles", x |-> x, y |-> y]
    /\ result = Pending
    /\ adc = Idle /\ pot = Idle /\ raw = Idle
    /\ pin = Idle /\ btn = Idle /\ loop = Idle /\ arm = Idle

GetAngles ==
    /\ args.fn = "get_angles"
    /\ result = Pending
    /\ result' = get_angles(data, args.x, args.y)
    /\ UNCHANGED <<data, args, potVars, loopVars>>

NextGrid == GetAngles

SpecGrid == InitGrid /\ [][NextGrid]_vars

----------------------------------------------------------------------------
(* Claims on GridInterpolator.get_angles                                   *)

GridCalled == args.fn = "get_angles" /\ result # Pending

\* C1 (as claimed): at every point that is a key of the grid, get_angles
\* returns exactly the (shoulder, elbow) pair stored for that key, whatever
\* other keys the grid holds.
C1_CornerReturnsStored ==
    (GridCalled /\ <<args.x, args.y>> \in DOMAIN data) =>
        /\ result.kind = "angles"
        /\ <<result.shoulder, result.elbow>> = data[<<args.x, args.y>>]

\* C2: get_angles returns None whenever one of the four corners of the cell
\* containing (x, y) is absent, and a value only when all four are present.
C2_NoneUnlessFourCorners ==
    GridCalled =>
        LET c == Corners(args.x, args.y)
            present == {c.p00, c.p10, c.p01, c.p11} \subseteq DOMAIN data
        IN  /\ ~present => result = None
            /\ result.kind \in {"None", "angles"}
            /\ result.kind = "angles" => present

C2_Witness ==
    /\ GridCalled
    /\ result = None
    /\ Cardinality({p \in {Corners(args.x, args.y)[f] :
                              f \in {"p00", "p10", "p01", "p11"}} :
                       p \in DOMAIN data}) = 3

IsCentre(x, y) ==
    LET half == FDiv(grid_size, FromInt(2))
    IN  /\ x = FAdd(CellFloor(x), half)
        /\ y = FAdd(CellFloor(y), half)

\* C3: at the exact centre of a cell whose four corners are present,
\* get_angles returns, for each joint, the arithmetic mean of the four
\* corner values.
C3_CentreIsMean ==
    (GridCalled /\ IsCentre(args.x, args.y)
        /\ ~MissingCorner(data, Corners(args.x, args.y))) =>
        LET c == Corners(args.x, args.y)
            sum(i) == XAdd(XAdd(XAdd(data[c.p00][i], data[c.p10][i]),
                                data[c.p01][i]), data[c.p11][i])
        IN  /\ result.kind = "angles"
            /\ XScale(4, result.shoulder) = sum(1)
            /\ XScale(4, result.elbow) = sum(2)

C3_Witness ==
    /\ GridCalled /\ IsCentre(args.x, args.y)
    /\ result.kind = "angles"
    /\ LET c == Corners(args.x, args.y)
       IN  Cardinality({data[c.p00], data[c.p10], data[c.p01], data[c.p11]}) = 4
    /\ result.shoulder # result.elbow

----------------------------------------------------------------------------
(* ik.py: solve_kinematics                                                 *)

ZeroDivisionError == [kind |-> "ZeroDivisionError"]

\* math.acos raises ValueError("math domain error") outside [-1, 1].
ValueError == [kind |-> "ValueError"]

\* Angles are kept as the terms that denote them: atan2, acos and degrees
\* are transcendental and have no float value in this arithmetic.
Atan2(y, x) == [fn |-> "atan2", y |-> y, x |-> x]

Acos(c) == [fn |-> "acos", c |-> c]

AngleSub(a, b) == [fn |-> "sub", a |-> a, b |-> b]

Degrees(t) == [fn |-> "degrees", t |-> t]

AcosDomain(c) == FLe(FromInt(-1), c) /\ FLe(c, FromInt(1))

\* AC > L1 + L2 or AC < abs(L1 - L2)
OutOfReachUpperOnly(AC, L1, L2) == FGt(AC, FAdd(L1, L2))

OutOfReach(AC, L1, L2) ==
    FGt(AC, FAdd(L1, L2)) \/ FLt(AC, FAbs(FSub(L1, L2)))

\* AC = sqrt(x*x + y*y) for x, y the target relative to the origin
AnchorDistance(target_x, target_y, origin_x, origin_y) ==
    LET x == FSub(target_x, origin_x)
        y == FSub(target_y, origin_y)
    IN  FSqrt(FAdd(FMul(x, x), FMul(y, y)))

solve_kinematics(target_x, target_y, origin_x, origin_y, shoulder_length, elbow_length) ==
    LET x  == FSub(target_x, origin_x)
        y  == FSub(target_y, origin_y)
        L1 == shoulder_length
        L2 == elbow_length
        AC == AnchorDistance(target_x, target_y, origin_x, origin_y)
        two == FromInt(2)
        den1 == FMul(FMul(two, L1), AC)
        num1 == FSub(FAdd(FMul(L1, L1), FMul(AC, AC)), FMul(L2, L2))
        den2 == FMul(FMul(two, L1), L2)
        num2 == FSub(FAdd(FMul(L1, L1), FMul(L2, L2)), FMul(AC, AC))
    IN  IF OutOfReach(AC, L1, L2) THEN None
        ELSE IF den1.m = 0 THEN ZeroDivisionError
        ELSE IF ~AcosDomain(FDiv(num1, den1)) THEN ValueError
        ELSE IF den2.m = 0 THEN ZeroDivisionError
        ELSE IF ~AcosDomain(FDiv(num2, den2)) THEN ValueError
        ELSE [kind |-> "angles",
              alpha |-> Degrees(AngleSub(Atan2(y, x), Acos(FDiv(num1, den1)))),
              beta  |-> Degrees(Acos(FDiv(num2, den2)))]

\* main.py: AC = sqrt((x - -50)**2 + (y - 139.7)**2)
MainAnchorDistance(target_x, target_y, origin_x, origin_y) ==
    LET x  == FSub(target_x, origin_x)
        y  == FSub(target_y, origin_y)
        dx == FSub(x, FromInt(-50))
        dy == FSub(y, Lit(1397, 10))
    IN  FSqrt(FAdd(FMul(dx, dx), FMul(dy, dy)))

\* main.py: solve_kinematics, the same solver about the anchor (-50, 139.7)
main_solve_kinematics(target_x, target_y, origin_x, origin_y, shoulder_length, elbow_length) ==
    LET x  == FSub(target_x, origin_x)
        y  == FSub(target_y, origin_y)
        L1 == shoulder_length
        L2 == elbow_length
        AC == MainAnchorDistance(target_x, target_y, origin_x, origin_y)
        two == FromInt(2)
        den1 == FMul(FMul(two, L1), AC)
        num1 == FSub(FAdd(FMul(L1, L1), FMul(AC, AC)), FMul(L2, L2))
        den2 == FMul(FMul(two, L1), L2)
        num2 == FSub(FAdd(FMul(L1, L1), FMul(L2, L2)), FMul(AC, AC))
    IN  IF OutOfReach(AC, L1, L2) THEN None
        ELSE IF den1.m = 0 THEN ZeroDivisionError
        ELSE IF ~AcosDomain(FDiv(num1, den1)) THEN ValueError
        ELSE IF den2.m = 0 THEN ZeroDivisionError
        ELSE IF ~AcosDomain(FDiv(num2, den2)) THEN ValueError
        ELSE [kind |-> "angles",
              alpha |-> Degrees(AngleSub(Atan2(FAdd(x, FromInt(50)),
                                               FSub(Lit(1397, 10), y)),
                                         Acos(FDiv(num1, den1)))),
              beta  |-> Degrees(Acos(FDiv(num2, den2)))]

\* Longest link and farthest target coordinate tried.
MaxLink == 3

MaxReach == 6

IKOrigins == {<<0, 0>>, <<1, -2>>}

\* The targets tried on main.py's solver lie about its anchor.
MainTargetShift == <<-50, 140>>

InitIK ==
    /\ data = Idle
    /\ \E tx \in -MaxReach .. MaxReach, ty \in -MaxReach .. MaxReach,
          o \in IKOrigins, l1 \in 1 .. MaxLink, l2 \in 1 .. MaxLink :
         args = [fn |-> "solve_kinematics",
                 target_x |-> FromInt(tx), target_y |-> FromInt(ty),
                 origin_x |-> FromInt(o[1]), origin_y |-> FromInt(o[2]),
                 shoulder_length |-> FromInt(l1), elbow_length |-> FromInt(l2)]
    /\ result = Pending
    /\ adc = Idle /\ pot = Idle /\ raw = Idle
    /\ pin = Idle /\ btn = Idle /\ loop = Idle /\ arm = Idle

InitMainIK ==
    /\ data = Idle
    /\ \E tx \in -MaxReach .. MaxReach, ty \in -MaxReach .. MaxReach,
          o \in IKOrigins, l1 \in 1 .. MaxLink, l2 \in 1 .. MaxLink :
         args = [fn |-> "main.solve_kinematics",
                 target_x |-> FromInt(tx + MainTargetShift[1] + o[1]),
                 target_y |-> FromInt(ty + MainTargetShift[2] + o[2]),
                 origin_x |-> FromInt(o[1]), origin_y |-> FromInt(o[2]),
                 shoulder_length |-> FromInt(l1), elbow_length |-> FromInt(l2)]
    /\ result = Pending
    /\ adc = Idle /\ pot = Idle /\ raw = Idle
    /\ pin = Idle /\ btn = Idle /\ loop = Idle /\ arm = Idle

SolveKinematics ==
    /\ args.fn = "solve_kinematics"
    /\ result = Pending
    /\ result' = solve_kinematics(args.target_x, args.target_y,
                                  args.origin_x, args.origin_y,
                                  args.shoulder_length, args.elbow_length)
    /\ UNCHANGED <<data, args, potVars, loopVars>>

MainSolveKinematics ==
    /\ args.fn = "main.solve_kinematics"
    /\ result = Pending
    /\ result' = main_solve_kinematics(args.target_x, args.target_y,
                                       args.origin_x, args.origin_y,
                                       args.shoulder_length, args.elbow_length)
    /\ UNCHANGED <<data, args, potVars, loopVars>>

NextIK == SolveKinematics \/ MainSolveKinematics

SpecIK == (InitIK \/ InitMainIK) /\ [][NextIK]_vars

----------------------------------------------------------------------------
(* Claims on solve_kinematics                                              *)

IKCalled == args.fn = "solve_kinematics" /\ result # Pending

MainIKCalled == args.fn = "main.solve_kinematics" /\ result # Pending

IK_AC ==
    IF args.fn = "main.solve_kinematics"
    THEN MainAnchorDistance(args.target_x, args.target_y, args.origin_x, args.origin_y)
    ELSE AnchorDistance(args.target_x, args.target_y, args.origin_x, args.origin_y)

IK_Sum == FAdd(args.shoulder_length, args.elbow_length)

IK_Diff == FAbs(FSub(args.shoulder_length, args.elbow_length))

\* C4: whenever AC is strictly greater than L1 + L2 or strictly less than
\* |L1 - L2|, solve_kinematics returns None and never a pair of angles.
C4_OutsideAnnulusIsNone ==
    ((IKCalled \/ MainIKCalled) /\ (FGt(IK_AC, IK_Sum) \/ FLt(IK_AC, IK_Diff)))
        => result = None

C4_Witness ==
    /\ IKCalled
    /\ FLt(IK_AC, IK_Diff)
    /\ IK_AC.m # 0
    /\ result = None

C4_WitnessFar == IKCalled /\ FGt(IK_AC, IK_Sum) /\ result = None

C4_WitnessMain ==
    MainIKCalled /\ FLt(IK_AC, IK_Diff) /\ IK_AC.m # 0 /\ result = None

MainIK_Angles == MainIKCalled /\ result.kind = "angles"

InAnnulus == FLe(IK_Diff, IK_AC) /\ FLe(IK_AC, IK_Sum)

\* C5 (as claimed): for |L1 - L2| <= AC <= L1 + L2, boundaries included and
\* any positive link lengths, solve_kinematics returns a pair of angles: it
\* neither returns None nor raises (no division by zero, no acos domain error).
C5_InsideAnnulusReturnsAngles ==
    (IKCalled /\ InAnnulus) => result.kind = "angles"

\* Forward kinematics of the two-link arm, for stating C6.  Cosine and sine
\* of an angle term, <<cos, sin>>; radians(degrees(t)) is t.
RECURSIVE Trig(_)
Trig(t) ==
    CASE t.fn = "degrees" -> Trig(t.t)
      [] t.fn = "acos" ->
            <<t.c, FSqrt(FSub(FromInt(1), FMul(t.c, t.c)))>>
      [] t.fn = "atan2" ->
            LET h == FSqrt(FAdd(FMul(t.x, t.x), FMul(t.y, t.y)))
            IN  IF h.m = 0 THEN <<FromInt(1), FromInt(0)>>
                ELSE <<FDiv(t.x, h), FDiv(t.y, h)>>
      [] t.fn = "sub" ->
            LET a == Trig(t.a)
                b == Trig(t.b)
            IN  <<FAdd(FMul(a[1], b[1]), FMul(a[2], b[2])),
                  FSub(FMul(a[2], b[1]), FMul(a[1], b[2]))>>

\* Link 1 of length L1 leaves the anchor at angle alpha; link 2 of length L2
\* makes the interior angle beta with it at the elbow, so it points along
\* alpha + 180 - beta.
ForwardKinematics(alpha, beta, origin_x, origin_y, L1, L2) ==
    LET a  == Trig(alpha)
        ab == Trig(AngleSub(alpha, beta))
    IN  <<FSub(FAdd(origin_x, FMul(L1, a[1])), FMul(L2, ab[1])),
          FSub(FAdd(origin_y, FMul(L1, a[2])), FMul(L2, ab[2]))>>

\* Numerical tolerance of the round trip: 1/ToleranceInv of a length unit.
ToleranceInv == 4

Close(a, b) == FLe(FAbs(FSub(a, b)), Lit(1, ToleranceInv))

RoundTrips ==
    LET c == ForwardKinematics(result.alpha, result.beta,
                               args.origin_x, args.origin_y,
                               args.shoulder_length, args.elbow_length)
    IN  Close(c[1], args.target_x) /\ Close(c[2], args.target_y)

\* C6 (as claimed): for every target inside the annulus, the angles returned
\* by solve_kinematics, fed to the forward kinematics, reproduce the target
\* within numerical tolerance.
C6_RoundTripInsideAnnulus ==
    (IKCalled /\ InAnnulus) => (result.kind = "angles" /\ RoundTrips)

\* Whenever angles are returned, they do reproduce the target.
IK_ReturnedAnglesRoundTrip ==
    (IKCalled /\ result.kind = "angles") => RoundTrips

IK_Raised == IKCalled /\ result.kind \in {"ZeroDivisionError", "ValueError"}

IK_NoValueError == result.kind # "ValueError"

----------------------------------------------------------------------------
(* boardio.py: PotentiometerState                                          *)

\* POT_POLL_INTERVAL_MS = 50.0
PotPollIntervalMs == 50

\* The readings the two ADC channels take (16-bit, 0 .. 65535).
AdcXValues == {0, 50402, 65535}

AdcYValues == {13107, 65535}

\* alpha, the EMA weight: the default 0.15, and 1/2 and 1.
AlphaValues == {Lit(15, 100), Lit(1, 2), FromInt(1)}

\* Elapsed times passed to update, in ms.
ElapsedValues == {20, 50}

\* How many times _read runs in a behaviour.
MaxReads == 3

\* val = adc.read_u16() / 65535.0; return 0. if val < 0. else 1. if val > 1. else val
read_raw(u) ==
    LET val == FDiv(FromInt(u), Lit(65535, 1))
    IN  IF FLt(val, FromInt(0)) THEN FromInt(0)
        ELSE IF FGt(val, FromInt(1)) THEN FromInt(1)
        ELSE val

\* alpha * raw + (1 - alpha) * old
EmaNoDecay(alpha, r, old) == FAdd(FMul(alpha, r), old)

Ema(alpha, r, old) ==
    FAdd(FMul(alpha, r), FMul(FSub(FromInt(1), alpha), old))

\* PotentiometerState.__init__
PotInit(u, interval, alpha) ==
    [pot_poll_interval |-> interval, timer |-> FromInt(0), alpha |-> alpha,
     x_value |-> read_raw(u[1]), y_value |-> read_raw(u[2])]

\* PotentiometerState._read
PotRead(p, u) ==
    [p EXCEPT !.x_value = Ema(p.alpha, read_raw(u[1]), p.x_value),
              !.y_value = Ema(p.alpha, read_raw(u[2]), p.y_value)]

PotPolls(p, elapsed_time) ==
    FGe(FAdd(p.timer, elapsed_time), p.pot_poll_interval)

\* PotentiometerState.update
PotUpdate(p, u, elapsed_time) ==
    IF PotPolls(p, elapsed_time)
    THEN PotRead([p EXCEPT !.timer = FromInt(0)], u)
    ELSE [p EXCEPT !.timer = FAdd(p.timer, elapsed_time)]

\* raw_x, raw_y as the last read saw them
RawSeen(u, n) == [x |-> read_raw(u[1]), y |-> read_raw(u[2]), reads |-> n]

InitPot ==
    /\ data = Idle /\ args = Idle /\ result = Idle
    /\ adc \in AdcXValues \X AdcYValues
    /\ \E a \in AlphaValues : pot = PotInit(adc, FromInt(PotPollIntervalMs), a)
    /\ raw = RawSeen(adc, 0)
    /\ pin = Idle /\ btn = Idle /\ loop = Idle /\ arm = Idle

\* potentiometer_states.update(elapsed_time)
Update ==
    /\ \E ms \in ElapsedValues :
         LET el == FromInt(ms)
         IN  /\ PotPolls(pot, el) => raw.reads < MaxReads
             /\ pot' = PotUpdate(pot, adc, el)
             /\ raw' = IF PotPolls(pot, el) THEN RawSeen(adc, raw.reads + 1)
                       ELSE raw
    /\ UNCHANGED <<callVars, adc, loopVars>>

\* The potentiometers are turned.
AdcChange ==
    /\ adc' \in (AdcXValues \X AdcYValues) \ {adc}
    /\ UNCHANGED <<callVars, pot, raw, loopVars>>

NextPot == Update \/ AdcChange

SpecPot == InitPot /\ [][NextPot]_vars

----------------------------------------------------------------------------
(* Claims on PotentiometerState                                            *)

\* A step in which _read ran and saw the raw input of the read before it.
SameRawRead ==
    /\ raw'.reads = raw.reads + 1
    /\ raw'.x = raw.x /\ raw'.y = raw.y

Dist(a, b) == FAbs(FSub(a, b))

\* v2 is no farther from r than v1 and not on the other side of it.
Approaches(v1, v2, r) ==
    /\ FLe(Dist(v2, r), Dist(v1, r))
    /\ FLe(v1, r) => FLe(v2, r)
    /\ FGe(v1, r) => FGe(v2, r)

InUnit(v) == FLe(FromInt(0), v) /\ FLe(v, FromInt(1))

\* C9: after construction and after any sequence of update calls, with
\* alpha in (0, 1], x_value and y_value lie in [0, 1].
C9_ValuesInUnitInterval ==
    pot # Idle => InUnit(pot.x_value) /\ InUnit(pot.y_value)

C9_Witness ==
    /\ pot # Idle
    /\ raw.reads >= 2
    /\ pot.x_value # raw.x
    /\ FLt(FromInt(0), pot.x_value) /\ FLt(pot.x_value, FromInt(1))
    /\ pot.alpha = Lit(15, 100)

----------------------------------------------------------------------------
(* boardio.py: ButtonState                                                 *)

\* BTN_DEBOUNCE_MS = 50.0
BtnDebounceMs == 50

\* ButtonState.__init__
BtnInit(btn_debounce) ==
    [btn_debounce |-> btn_debounce, elapsed_time |-> FromInt(0),
     toggled_on |-> FALSE, btn_last_pressed |-> FALSE]

\* ButtonState.update without the test of the previous reading
BtnUpdateLevelTriggered(b, btn_pressed, elapsed_time) ==
    LET t    == FAdd(b.elapsed_time, elapsed_time)
        flip == btn_pressed /\ FGe(t, b.btn_debounce)
    IN  [b EXCEPT !.elapsed_time = IF flip THEN FromInt(0) ELSE t,
                  !.toggled_on = IF flip THEN ~b.toggled_on ELSE b.toggled_on,
                  !.btn_last_pressed = btn_pressed]

\* ButtonState.update, btn_pressed being self._btn.value()
BtnUpdate(b, btn_pressed, elapsed_time) ==
    LET t    == FAdd(b.elapsed_time, elapsed_time)
        flip == btn_pressed /\ ~b.btn_last_pressed /\ FGe(t, b.btn_debounce)
    IN  [b EXCEPT !.elapsed_time = IF flip THEN FromInt(0) ELSE t,
                  !.toggled_on = IF flip THEN ~b.toggled_on ELSE b.toggled_on,
                  !.btn_last_pressed = btn_pressed]

----------------------------------------------------------------------------
(* main.clean.py: the control loop                                         *)

SHOULDER_OFFSET_DEG == Lit(120, 1)

ELBOW_OFFSET_DEG == Lit(30, 1)

X_OFFSET == Lit(0, 1)

Y_OFFSET == Lit(0, 1)

ORIGIN_X == Lit(0, 1)

ORIGIN_Y == Lit(0, 1)

SHOULDER_LENGTH == Lit(155, 1)

ELBOW_LENGTH == Lit(155, 1)

PAPER_HEIGHT == Lit(215, 1)

PAPER_WIDTH == Lit(2794, 10)

VELOCITY_LIMIT == Lit(200, 1)

\* convert_board_coordinates(x, y)
convert_board_coordinates(x, y) ==
    LET cx == FMax(FromInt(0), FMin(FromInt(1), x))
        cy == FMax(FromInt(0), FMin(FromInt(1), y))
    IN  <<FSub(FMul(cx, PAPER_WIDTH), FDiv(PAPER_WIDTH, Lit(2, 1))),
          FAdd(FMul(cy, PAPER_HEIGHT), Lit(50, 1))>>

\* sqrt(diff_x ** 2 + diff_y ** 2)
Hypot(diff_x, diff_y) == FSqrt(FAdd(FMul(diff_x, diff_x), FMul(diff_y, diff_y)))

\* The velocity limiting of a pass: interp moved toward board by at most
\* max_step, <<interp_x, interp_y>>.
LimitStep(interp, board, max_step) ==
    LET diff_x == FSub(board[1], interp[1])
        diff_y == FSub(board[2], interp[2])
        dist   == Hypot(diff_x, diff_y)
        dir_x  == IF dist.m = 0 THEN FromInt(0) ELSE FDiv(diff_x, dist)
        dir_y  == IF dist.m = 0 THEN FromInt(0) ELSE FDiv(diff_y, dist)
        step   == FMin(max_step, dist)
    IN  <<FAdd(interp[1], FMul(dir_x, step)), FAdd(interp[2], FMul(dir_y, step))>>

\* alpha + SHOULDER_OFFSET_DEG, beta + ELBOW_OFFSET_DEG: the angle t plus c
AnglePlus(t, c) == [fn |-> "plus", t |-> t, c |-> c]

\* 180.0 - (...): c minus the angle t
AngleFrom(c, t) == [fn |-> "from", c |-> c, t |-> t]

NoAngle == [fn |-> "unset"]

\* Passes of the loop in a behaviour.
MaxIter == 3

\* What (end - start) / 1_000_000.0 comes to, in ms.
LoopElapsedValues == {-1, 0, 20, 50}

LoopAdcXValues == {0, 20000, 32768, 50402, 65535}

LoopAdcYValues == {0, 13107, 40000, 65535}

\* if elapsed_ms <= 0: continue
SkipsPassNegativeOnly(elapsed_ms) == FLt(elapsed_ms, FromInt(0))

SkipsPass(elapsed_ms) == FLe(elapsed_ms, FromInt(0))

InitLoop ==
    /\ data = Idle /\ args = Idle /\ result = Idle
    /\ adc \in LoopAdcXValues \X LoopAdcYValues
    /\ pin \in {0, 1}
    /\ pot = PotInit(adc, Lit(PotPollIntervalMs, 1), Lit(15, 100))
    /\ raw = RawSeen(adc, 0)
    /\ btn = BtnInit(Lit(BtnDebounceMs, 1))
    /\ arm = [alpha |-> NoAngle, beta |-> NoAngle, commands |-> 0]
    /\ loop = [pc |-> "running", iter |-> 0, outcome |-> "start",
               elapsed_ms |-> FromInt(0), ik_calls |-> 0,
               interp_x |-> Lit(0, 1), interp_y |-> Lit(0, 1),
               board_x |-> Lit(0, 1), board_y |-> Lit(0, 1)]

\* One pass of the loop of main(), elapsed_ms having been measured.  Each
\* local of the pass is bound once, in the order the code assigns it.
Tick ==
    /\ loop.pc = "running"
    /\ loop.iter < MaxIter
    /\ \E ms \in LoopElapsedValues : \E elapsed_ms \in {FromInt(ms)} :
         IF SkipsPass(elapsed_ms)
         THEN \* continue
              /\ loop' = [loop EXCEPT !.outcome = "skipped", !.iter = loop.iter + 1,
                                      !.elapsed_ms = elapsed_ms]
              /\ UNCHANGED <<pot, raw, btn, arm>>
         ELSE
         \E p2 \in {PotUpdate(pot, adc, elapsed_ms)} :
         \E board \in {convert_board_coordinates(p2.x_value, p2.y_value)} :
         \E interp \in {LimitStep(<<loop.interp_x, loop.interp_y>>, board,
                                  VELOCITY_LIMIT)} :
         \E sol \in {solve_kinematics(FAdd(interp[1], X_OFFSET),
                                      FAdd(interp[2], Y_OFFSET),
                                      ORIGIN_X, ORIGIN_Y,
                                      SHOULDER_LENGTH, ELBOW_LENGTH)} :
         \E l2 \in {[loop EXCEPT !.interp_x = interp[1], !.interp_y = interp[2],
                                 !.board_x = board[1], !.board_y = board[2],
                                 !.iter = loop.iter + 1,
                                 !.elapsed_ms = elapsed_ms,
                                 !.ik_calls = loop.ik_calls + 1]} :
            /\ pot' = p2
            /\ raw' = IF PotPolls(pot, elapsed_ms) THEN RawSeen(adc, raw.reads + 1)
                      ELSE raw
            /\ btn' = BtnUpdate(btn, pin = 1, elapsed_ms)
            /\ IF sol.kind \in {"ZeroDivisionError", "ValueError"}
               THEN \* except Exception: continue
                    /\ loop' = [l2 EXCEPT !.outcome = "ik_error"]
                    /\ arm' = arm
               ELSE IF sol = None
               THEN \* unreachable: continue
                    /\ loop' = [l2 EXCEPT !.outcome = "unreachable"]
                    /\ arm' = arm
               ELSE \* set_arm_angles, then set_wrist_down, which ArmController
                    \* does not define: AttributeError ends main().
                    /\ arm' = [alpha |-> AnglePlus(sol.alpha, SHOULDER_OFFSET_DEG),
                               beta |-> AngleFrom(Lit(180, 1),
                                                  AnglePlus(sol.beta, ELBOW_OFFSET_DEG)),
                               commands |-> arm.commands + 1]
                    /\ loop' = [l2 EXCEPT !.outcome = "emitted",
                                          !.pc = "AttributeError"]
    /\ UNCHANGED <<callVars, adc, pin>>

\* The potentiometers are turned.
Turn ==
    /\ loop.pc = "running"
    /\ adc' \in (LoopAdcXValues \X LoopAdcYValues) \ {adc}
    /\ UNCHANGED <<callVars, pot, raw, loopVars>>

\* The button is pressed or released.
Press ==
    /\ loop.pc = "running"
    /\ pin' = 1 - pin
    /\ UNCHANGED <<callVars, potVars, btn, loop, arm>>

NextLoop == Tick \/ Turn \/ Press

SpecLoop == InitLoop /\ [][NextLoop]_vars

----------------------------------------------------------------------------
(* Claims on the velocity limiting of the control loop                     *)

\* A pass that was not skipped.
Processed == loop'.iter = loop.iter + 1 /\ loop'.outcome # "skipped"

\* C7 (as claimed): one velocity-limiting step from current toward target
\* with limit max_step yields a position at most max_step from current, and
\* exactly target whenever distance(current, target) <= max_step; when
\* current equals target the position is unchanged.
C7_LimitedStep ==
    [][Processed =>
        LET dist == Hypot(FSub(loop'.board_x, loop.interp_x),
                          FSub(loop'.board_y, loop.interp_y))
            moved == Hypot(FSub(loop'.interp_x, loop.interp_x),
                           FSub(loop'.interp_y, loop.interp_y))
        IN  /\ FLe(moved, VELOCITY_LIMIT)
            /\ FLe(dist, VELOCITY_LIMIT) =>
                  (loop'.interp_x = loop'.board_x /\ loop'.interp_y = loop'.board_y)
            /\ dist.m = 0 =>
                  (loop'.interp_x = loop.interp_x /\ loop'.interp_y = loop.interp_y)
    ]_vars

----------------------------------------------------------------------------
(* Claims on the passes of the control loop                                 *)

\* With the constants of main.clean.py every position the limiter takes is
\* within reach of the arm: no pass ends in the except branch or the None
\* branch of the solve.
Loop_IKNeverFails == loop.outcome \notin {"ik_error", "unreachable"}

\* C12: on a pass where the solve fails no command is issued and the
\* limiter position stays as advanced in that pass.
C12_FailedSolveKeepsPosition ==
    [][(Processed /\ loop'.outcome \in {"ik_error", "unreachable"}) =>
          (arm' = arm /\ loop'.pc = "running")]_vars

\* A pass whose measured elapsed time is zero or negative.
NonPositivePass ==
    loop'.iter = loop.iter + 1 /\ FLe(loop'.elapsed_ms, FromInt(0))

\* C13: a pass whose measured elapsed time is zero or negative leaves the
\* potentiometer state, the button state and the limiter position
\* unchanged, does not call the solver and issues no command.
C13_NonPositiveElapsedSkipped ==
    [][NonPositivePass =>
          /\ pot' = pot
          /\ btn' = btn
          /\ loop'.interp_x = loop.interp_x /\ loop'.interp_y = loop.interp_y
          /\ loop'.ik_calls = loop.ik_calls
          /\ arm' = arm]_vars

\* A pass with elapsed time zero was made while the button read pressed
\* and had read released before: a processed pass would have changed btn.
C13_Witness ==
    /\ loop # Idle
    /\ loop.iter >= 1
    /\ loop.outcome = "skipped"
    /\ loop.elapsed_ms = FromInt(0)
    /\ pin = 1 /\ ~btn.btn_last_pressed
    /\ arm.commands = 0

\* Distance of the board target from the limiter's initial position (0, 0).
InitialDistance == Hypot(loop.board_x, loop.board_y)

AtTarget == loop.interp_x = loop.board_x /\ loop.interp_y = loop.board_y

\* C15 (as claimed): with the target held constant the limiter position
\* is exactly the target after at most ceil(initial distance /
\* VELOCITY_LIMIT) processed passes, and the loop does not stop short of it:
\* once one pass was processed toward a target within VELOCITY_LIMIT the
\* position is the target, and when no further pass can follow the position
\* is the target.
C15_LimiterReachesTarget ==
    loop # Idle =>
        /\ (loop.ik_calls >= 1 /\ FLe(InitialDistance, VELOCITY_LIMIT)) => AtTarget
        /\ loop.pc # "running" => AtTarget

\* The loop has ended farther than a rounding error from its target.
Loop_EndedShort ==
    /\ loop # Idle
    /\ loop.pc = "AttributeError"
    /\ FGt(InitialDistance, VELOCITY_LIMIT)
    /\ ~AtTarget

----------------------------------------------------------------------------
(* calibrate_angles.py: send_compensated_angle                             *)

\* a // b for floats, b > 0: the floor of the exact quotient
FFloorDiv(a, b) ==
    LET emin == Min(a.e, b.e)
        n    == a.m * (2 ^ (a.e - emin))
        d    == b.m * (2 ^ (b.e - emin))
    IN  FromInt(n \div d)

\* calibrate: for angle in range(20, 181, 10)
CalibrationKeys == {20 + 10 * i : i \in 0 .. 16}

\* The measured angle recorded for the desired angle k, in three tables:
\* a constant error, an error alternating in sign, and no error.
CalibrationVariants == {0, 1, 2}

CalibrationValue(k, v) ==
    CASE v = 0 -> FromInt(k + 2)
      [] v = 1 -> FromInt(IF (k \div 10) % 2 = 0 THEN k + 3 ELSE k - 3)
      [] v = 2 -> FromInt(k)

\* calibration_setup: errors["shulder"], keyed by float(desired)
CalibrationTable(v) ==
    [key \in {FromInt(k) : k \in CalibrationKeys} |->
        CalibrationValue(CHOOSE k \in CalibrationKeys : FromInt(k) = key, v)]

\* x0 = angle // 10 + 10
CompX0(angle) == FAdd(FFloorDiv(angle, FromInt(10)), FromInt(10))

send_compensated_angle(table, angle) ==
    IF angle \in DOMAIN table
    THEN [kind |-> "value", via |-> "key", value |-> table[angle]]
    ELSE LET x0 == CompX0(angle)
             x1 == FAdd(x0, FromInt(10))
         IN  IF x0 \notin DOMAIN table \/ x1 \notin DOMAIN table THEN KeyError
             ELSE LET y0    == table[x0]
                      y1    == table[x1]
                      ratio == FDiv(FSub(angle, x0), FSub(x1, x0))
                      error == FAdd(y0, FMul(ratio, FSub(y1, y0)))
                  IN  [kind |-> "value", via |-> "interpolation", value |-> error,
                       x0 |-> x0, x1 |-> x1, ratio |-> ratio]

\* Queried angles: the halves from -MaxCompAngle / 10 to MaxCompAngle, and
\* one far above the table.
MaxCompAngle == 200

CompAngles ==
    {Lit(n, 2) : n \in -(MaxCompAngle \div 5) .. 2 * MaxCompAngle} \cup {FromInt(1605)}

InitComp ==
    /\ \E v \in CalibrationVariants : data = CalibrationTable(v)
    /\ \E a \in CompAngles : args = [fn |-> "send_compensated_angle", angle |-> a]
    /\ result = Pending
    /\ adc = Idle /\ pot = Idle /\ raw = Idle
    /\ pin = Idle /\ btn = Idle /\ loop = Idle /\ arm = Idle

SendCompensatedAngle ==
    /\ args.fn = "send_compensated_angle"
    /\ result = Pending
    /\ result' = send_compensated_angle(data, args.angle)
    /\ UNCHANGED <<data, args, potVars, loopVars>>

NextComp == SendCompensatedAngle

SpecComp == InitComp /\ [][NextComp]_vars

----------------------------------------------------------------------------
(* Claims on send_compensated_angle                                        *)

CompCalled == args.fn = "send_compensated_angle" /\ result # Pending

CompLowKey == FromInt(20)

CompHighKey == FromInt(180)

\* The queried angle is not a key and lies between the lowest and highest key.
CompInside ==
    /\ args.angle \notin DOMAIN data
    /\ FLt(CompLowKey, args.angle) /\ FLt(args.angle, CompHighKey)

\* C10 (as claimed): for a queried angle that is not a key but lies between
\* the lowest and the highest key, send_compensated_angle picks x0 and x1 as
\* two adjacent table keys with x0 <= angle < x1 and returns the linear
\* interpolation, a value between table[x0] and table[x1].
C10_InterpolatesBetweenBracketingKeys ==
    (CompCalled /\ CompInside) =>
        /\ result.kind = "value"
        /\ result.via = "interpolation"
        /\ result.x0 \in DOMAIN data /\ result.x1 \in DOMAIN data
        /\ FSub(result.x1, result.x0) = FromInt(10)
        /\ FLe(result.x0, args.angle) /\ FLt(args.angle, result.x1)
        /\ FLe(FMin(data[result.x0], data[result.x1]), result.value)
        /\ FLe(result.value, FMax(data[result.x0], data[result.x1]))

\* What the code does with such an angle.
Comp_InsideRaises ==
    (CompCalled /\ CompInside) =>
        \/ result = KeyError
        \/ (result.kind = "value" /\ FGt(result.ratio, FromInt(1)))

Comp_InsideReturned == CompCalled /\ CompInside /\ result.kind = "value"

Comp_InsideKeyError == CompCalled /\ CompInside /\ result = KeyError

\* The queried angle is below the lowest or above the highest key.
CompOutside == FLt(args.angle, CompLowKey) \/ FGt(args.angle, CompHighKey)

\* C11 (as claimed): for a queried angle below the lowest or above the
\* highest key send_compensated_angle fails and returns no value, and no
\* returned value is computed with a ratio (angle - x0) / (x1 - x0) outside
\* [0, 1).
C11_NeverExtrapolates ==
    CompCalled =>
        /\ CompOutside => result.kind # "value"
        /\ (result.kind = "value" /\ result.via = "interpolation") =>
              (FLe(FromInt(0), result.ratio) /\ FLt(result.ratio, FromInt(1)))

\* What the code does far above the table.
Comp_OutsideReturned == CompCalled /\ CompOutside /\ result.kind = "value"

Comp_OutsideKeyError == CompCalled /\ CompOutside /\ result = KeyError

----------------------------------------------------------------------------
(* kinematics_interpolator.py: GridInterpolator.__init__                   *)

\* A str is the sequence of its characters.  The characters of the keys
\* loaded here are the digits and - . , ; a
Digits == <<"0", "1", "2", "3", "4", "5", "6", "7", "8", "9">>

IsDigit(c) == \E n \in 1 .. 10 : Digits[n] = c

DigitValue(c) == (CHOOSE n \in 1 .. 10 : Digits[n] = c) - 1

\* str.split(sep)
RECURSIVE Split(_, _)
Split(s, sep) ==
    IF \A i \in 1 .. Len(s) : s[i] # sep THEN <<s>>
    ELSE LET i == CHOOSE k \in 1 .. Len(s) :
                      s[k] = sep /\ \A j \in 1 .. k - 1 : s[j] # sep
         IN  <<SubSeq(s, 1, i - 1)>> \o Split(SubSeq(s, i + 1, Len(s)), sep)

\* int(s) of a sequence of digits
RECURSIVE DigitsValue(_)
DigitsValue(s) ==
    IF s = <<>> THEN 0
    ELSE 10 * DigitsValue(SubSeq(s, 1, Len(s) - 1)) + DigitValue(s[Len(s)])

\* float(s): an optional sign, then digits with at most one point and at
\* least one digit; anything else raises ValueError.
ParseFloat(s) ==
    LET signed == s # <<>> /\ s[1] \in {"-", "+"}
        body   == IF signed THEN SubSeq(s, 2, Len(s)) ELSE s
        points == {i \in 1 .. Len(body) : body[i] = "."}
        digits == SelectSeq(body, IsDigit)
        frac   == IF points = {} THEN 0
                  ELSE Len(body) - (CHOOSE i \in points : TRUE)
        wellFormed ==
            /\ \A i \in 1 .. Len(body) : IsDigit(body[i]) \/ body[i] = "."
            /\ Cardinality(points) <= 1
            /\ digits # <<>>
        n == DigitsValue(digits)
    IN  IF ~wellFormed THEN ValueError
        ELSE Lit(IF signed /\ s[1] = "-" THEN -n ELSE n, 10 ^ frac)

\* x_str, y_str = key.split(','); x, y = float(x_str), float(y_str)
ParseKeyFirstTwoParts(key) ==
    LET parts == Split(key, ",")
    IN  IF Len(parts) < 2 THEN ValueError
        ELSE LET x == ParseFloat(parts[1])
                 y == ParseFloat(parts[2])
             IN  IF x = ValueError \/ y = ValueError THEN ValueError
                 ELSE <<x, y>>

ParseKey(key) ==
    LET parts == Split(key, ",")
    IN  IF Len(parts) # 2 THEN ValueError
        ELSE LET x == ParseFloat(parts[1])
                 y == ParseFloat(parts[2])
             IN  IF x = ValueError \/ y = ValueError THEN ValueError
                 ELSE <<x, y>>

\* self.data[(x, y)] = tuple(value)
Store(d, k, value) ==
    [q \in DOMAIN d \cup {k} |-> IF q = k THEN value ELSE d[q]]

\* The ValueError of a key leaves the loop: except (OSError, ValueError)
AbortOnInvalidKey(items, d) == <<>>

RECURSIVE LoadItems(_, _), SkipInvalidKey(_, _)

\* except ValueError: print("Skipping invalid key ..."), then the next item
SkipInvalidKey(items, d) == LoadItems(items, d)

\* for key, value in raw_data.items()
LoadItems(items, d) ==
    IF items = <<>> THEN d
    ELSE LET k == ParseKey(Head(items).key)
         IN  IF k = ValueError THEN SkipInvalidKey(Tail(items), d)
             ELSE LoadItems(Tail(items), Store(d, k, Head(items).value))

\* GridInterpolator.__init__: self.data of the new object.  A file that
\* cannot be opened or is not JSON leaves it empty.
GridInterpolatorInit(file) ==
    IF ~file.readable THEN <<>> ELSE LoadItems(file.items, <<>>)

\* Keys a calibration file may hold, each with what it denotes: the two
\* numbers (as fractions) of a key of the form "<x>,<y>", or nothing.
KeyTexts ==
    { [key |-> <<"0", ",", "0">>, form |-> "x,y", x |-> <<0, 1>>, y |-> <<0, 1>>],
      [key |-> <<"5", ",", "0">>, form |-> "x,y", x |-> <<5, 1>>, y |-> <<0, 1>>],
      [key |-> <<"5", ".", "0", ",", "0">>, form |-> "x,y", x |-> <<5, 1>>, y |-> <<0, 1>>],
      [key |-> <<"-", "5", ",", "2", ".", "5">>, form |-> "x,y", x |-> <<-5, 1>>, y |-> <<5, 2>>],
      [key |-> <<"1", "0", ",", "1", "5">>, form |-> "x,y", x |-> <<10, 1>>, y |-> <<15, 1>>],
      [key |-> <<"5">>, form |-> "malformed"],
      [key |-> <<"a", ",", "0">>, form |-> "malformed"],
      [key |-> <<"5", ",">>, form |-> "malformed"],
      [key |-> <<"0", ",", "5", ",", "5">>, form |-> "malformed"],
      [key |-> <<>>, form |-> "malformed"],
      [key |-> <<"5", ";", "0">>, form |-> "malformed"],
      [key |-> <<"5", ".", "0", ".", "0", ",", "0">>, form |-> "malformed"] }

\* Entries in a calibration file.
MaxEntries == 3

\* The value of the i-th entry, [alpha_degrees, beta_degrees]
EntryValue(i) == <<FromInt(10 * i), FromInt(10 * i + 5)>>

\* The files: up to MaxEntries entries with distinct keys, in file order.
CalibrationFiles ==
    UNION {
      { [i \in 1 .. n |-> [key |-> t[i].key, value |-> EntryValue(i), text |-> t[i]]] :
          t \in {u \in [1 .. n -> KeyTexts] :
                    \A i, j \in 1 .. n : i # j => u[i] # u[j]} } :
      n \in 0 .. MaxEntries }

InitLoad ==
    /\ data = <<>>
    /\ \E items \in CalibrationFiles, readable \in BOOLEAN :
         args = [fn |-> "GridInterpolator", items |-> items, readable |-> readable]
    /\ result = Pending
    /\ adc = Idle /\ pot = Idle /\ raw = Idle
    /\ pin = Idle /\ btn = Idle /\ loop = Idle /\ arm = Idle

\* GridInterpolator(calibration_file)
Load ==
    /\ args.fn = "GridInterpolator"
    /\ result = Pending
    /\ data' = GridInterpolatorInit(args)
    /\ result' = [kind |-> "loaded"]
    /\ UNCHANGED <<args, potVars, loopVars>>

NextLoad == Load

SpecLoad == InitLoad /\ [][NextLoad]_vars

----------------------------------------------------------------------------
(* Claims on GridInterpolator.__init__                                     *)

Loaded == args.fn = "GridInterpolator" /\ result # Pending /\ args.readable

\* The key (float(x), float(y)) an entry of the form "<x>,<y>" denotes.
DenotedKey(t) == <<Lit(t.x[1], t.x[2]), Lit(t.y[1], t.y[2])>>

WellFormedEntries ==
    {i \in 1 .. Len(args.items) : args.items[i].text.form = "x,y"}

\* C14: every entry whose key is not of the form "<x>,<y>" with two numeric
\* parts is skipped on its own, and every well-formed entry of the file,
\* before or after it, is in the loaded grid under (float(x), float(y)),
\* holding the value of the last entry that denotes that key; a malformed
\* key never empties or aborts the load.
C14_MalformedKeysSkippedAlone ==
    Loaded =>
        /\ DOMAIN data = {DenotedKey(args.items[i].text) : i \in WellFormedEntries}
        /\ \A i \in WellFormedEntries :
              (\A j \in WellFormedEntries :
                  DenotedKey(args.items[j].text) = DenotedKey(args.items[i].text)
                      => j <= i)
                  => data[DenotedKey(args.items[i].text)] = args.items[i].value

\* A malformed key stands between two well-formed ones, all loaded.
C14_Witness ==
    /\ Loaded
    /\ Len(args.items) = 3
    /\ args.items[1].text.form = "x,y"
    /\ args.items[2].text.form = "malformed"
    /\ args.items[3].text.form = "x,y"
    /\ Cardinality(DOMAIN data) = 2

----------------------------------------------------------------------------
(* boardio.py: ButtonState on its own, under any sequence of update calls  *)

\* Elapsed times passed to update, in ms.
BtnElapsedValues == {0, 20, 30, 50}

\* Calls of update in a behaviour.
MaxUpdates == 5

\* What the calls made so far were, kept apart from the object: the
\* readings of the last two calls, the exact sum of the elapsed times since
\* the last flip (or construction), and the flips counted.
NoCalls ==
    [kind |-> "calls", calls |-> 0, pressed |-> FALSE, prev_pressed |-> FALSE,
     accumulated |-> FromInt(0), since_flip |-> FromInt(0),
     flipped |-> FALSE, flips |-> 0, flips_in_hold |-> 0]

Called(h, b, b2, btn_pressed, elapsed_time) ==
    LET flipped == b2.toggled_on # b.toggled_on
        since   == XAdd(h.since_flip, elapsed_time)
    IN  [kind |-> "calls", calls |-> h.calls + 1,
         pressed |-> btn_pressed, prev_pressed |-> h.pressed,
         accumulated |-> since,
         since_flip |-> IF flipped THEN FromInt(0) ELSE since,
         flipped |-> flipped,
         flips |-> h.flips + (IF flipped THEN 1 ELSE 0),
         flips_in_hold |->
            IF ~btn_pressed THEN 0
            ELSE (IF h.pressed THEN h.flips_in_hold ELSE 0)
                 + (IF flipped THEN 1 ELSE 0)]

InitBtn ==
    /\ data = Idle /\ args = Idle
    /\ result = NoCalls
    /\ adc = Idle /\ pot = Idle /\ raw = Idle
    /\ pin \in {0, 1}
    /\ btn = BtnInit(Lit(BtnDebounceMs, 1))
    /\ loop = Idle /\ arm = Idle

\* button_state.update(elapsed_time)
UpdateButton ==
    /\ result.calls < MaxUpdates
    /\ \E ms \in BtnElapsedValues :
         /\ btn' = BtnUpdate(btn, pin = 1, FromInt(ms))
         /\ args' = [fn |-> "ButtonState.update", elapsed_time |-> FromInt(ms)]
         /\ result' = Called(result, btn, btn', pin = 1, FromInt(ms))
    /\ UNCHANGED <<data, potVars, pin, loop, arm>>

\* The button is pressed or released.
PinChange ==
    /\ pin' = 1 - pin
    /\ UNCHANGED <<callVars, potVars, btn, loop, arm>>

NextBtn == UpdateButton \/ PinChange

SpecBtn == InitBtn /\ [][NextBtn]_vars

----------------------------------------------------------------------------
(* Claims on ButtonState                                                   *)

\* C16: the toggle state flips only on an update call where the button
\* reads pressed, read not pressed on the previous update call, and at
\* least btn_debounce of elapsed time has accumulated since the last flip;
\* so a button held down across update calls flips the state at most once.
C16_FlipsOnDebouncedPressOnly ==
    result.kind = "calls" =>
        /\ result.flipped =>
              /\ result.pressed
              /\ ~result.prev_pressed
              /\ FGe(result.accumulated, btn.btn_debounce)
        /\ result.flips_in_hold <= 1

\* A second flip has happened.
C16_Witness ==
    /\ result.kind = "calls"
    /\ result.flipped
    /\ result.flips >= 2

\* The button was held across three calls after a flip.
Btn_HeldAfterFlip ==
    /\ result.kind = "calls"
    /\ result.flips_in_hold = 1
    /\ result.pressed /\ result.prev_pressed /\ ~result.flipped
    /\ FGe(btn.elapsed_time, btn.btn_debounce)

----------------------------------------------------------------------------
Spec == SpecGrid
====
